---- MODULE Spec2Model ----
(***************************************************************************)
(* Model of GAMBA's DNF minimizer (bitwise-factory/utils/dnf.py and        *)
(* implicant.py) and of its expression parser (utils/parse.py).            *)
(*                                                                         *)
(* Python lists are sequences; a Python list index i is the sequence       *)
(* index i + 1.  Python strings are sequences of one-character strings.    *)
(***************************************************************************)
EXTENDS Integers, Sequences, FiniteSets, TLC

VARIABLES
    \* ---- Dnf object and the position of its constructor ----
    vnumber,    \* argument vnumber of Dnf.__init__
    vec,        \* argument vec of Dnf.__init__ (truth value vector)
    groups,     \* Dnf.__groups
    primes,     \* Dnf.primes
    pc,         \* position of the run: "init", "merge", "drop", "done"
    rounds,     \* number of calls of __merge_step made by __merge so far
    requ,       \* local requ of __drop_unrequired_implicants
    dropIdx,    \* local i of __drop_unrequired_implicants
    bitwise,    \* last result of Dnf.to_bitwise
    dnfStr,     \* last result of Dnf.get
    \* ---- a pair of implicants handed to Implicant.try_merge ----
    implA,      \* self of the call
    implB,      \* other of the call
    mergeRes,   \* what the call returned
    implPc,     \* "idle", "ready" (before the call), "returned"
    \* ---- a call parse(expr, bitCount, reduceConstants, refine, marklinear)
    operands,   \* the operands of the text being written, in source order
    ops,        \* the operators between them
    spaces,     \* the number of spaces written around an operator
    natoms,     \* the number of variables and literals written so far
    ngroups,    \* the number of pairs of parentheses written so far
    nprefixes,  \* the number of unary operators written so far
    parsePc,    \* "idle", "build", "parsed", "returned", "exited"
    expr,       \* argument expr
    bitCount,   \* argument bitCount
    reduceConstants,    \* argument reduceConstants
    refine,     \* argument refine
    marklinear, \* argument marklinear
    root,       \* local root of parse
    refined,    \* root.refine() was called
    marked,     \* root.mark_linear() was called
    \* ---- a text written token by token, spaces put between the tokens ----
    tokens,     \* the tokens of the text, in source order
    gaps        \* gaps[k]: the spaces before token k; the last: after all

dnfVars == <<vnumber, vec, groups, primes, pc, rounds, requ, dropIdx,
             bitwise, dnfStr>>
implVars == <<implA, implB, mergeRes, implPc>>
textVars == <<operands, ops, spaces, natoms, ngroups, nprefixes>>
callVars == <<expr, bitCount, reduceConstants, refine, marklinear, root,
              refined, marked>>
spaceVars == <<tokens, gaps>>
parseVars == <<textVars, spaceVars, parsePc, callVars>>

-----------------------------------------------------------------------------
\* Bounds of the model.
MaxVars == 3        \* largest variable count of a Dnf run
MaxVecLen == 3      \* longest implicant vector handed to try_merge directly
MaxOperands == 3    \* most variables and literals of an expression text
MaxGroups == 1      \* most pairs of parentheses of an expression text
MaxPrefixes == 1    \* most unary operators of an expression text
MaxSpaces == 1      \* most spaces written around an operator
MaxBitCount == 2    \* largest bit count handed to parse
MaxTokens == 3      \* most tokens of a text written token by token
MaxGap == 2         \* most spaces put in one place between tokens

-----------------------------------------------------------------------------
\* Generic helpers.

RECURSIVE Pow2(_)
Pow2(n) == IF n = 0 THEN 1 ELSE 2 * Pow2(n - 1)

RECURSIVE popcount(_)
popcount(x) == IF x = 0 THEN 0 ELSE (x % 2) + popcount(x \div 2)

Range(s) == {s[k] : k \in DOMAIN s}

RECURSIVE Flatten(_)
Flatten(ss) == IF ss = <<>> THEN <<>> ELSE Head(ss) \o Flatten(Tail(ss))

-----------------------------------------------------------------------------
\* Implicant (implicant.py).

\* The vector entry of a variable without influence (Python's None).
None == 2

\* The result of try_merge when the implicants cannot be merged.
NoImplicant == [vec |-> <<>>, minterms |-> <<>>, obsolete |-> TRUE]

\* Implicant.__init_vec: entry i is bit i of value, least significant first.
init_vec(vn, value) == [k \in 1..vn |-> (value \div Pow2(k - 1)) % 2]

\* Implicant.__init__ for value # -1.
Implicant(vn, value) ==
    [vec |-> init_vec(vn, value), minterms |-> <<value>>, obsolete |-> FALSE]

\* Implicant.__get_copy: the copy is a fresh implicant, not obsolete.
get_copy(impl) ==
    [vec |-> impl.vec, minterms |-> impl.minterms, obsolete |-> FALSE]

\* Implicant.count_ones.
count_ones(impl) == Cardinality({k \in DOMAIN impl.vec : impl.vec[k] = 1})

\* The loop of Implicant.try_merge from list index i on, diffIdx being the
\* list index of the difference found so far or -1.  The result is the final
\* diffIdx, or -2 when the loop returns None at a second difference.
RECURSIVE merge_loop(_, _, _, _)
merge_loop(self, other, i, diffIdx) ==
    IF i >= Len(self.vec) THEN diffIdx
    ELSE IF self.vec[i + 1] = other.vec[i + 1]
         THEN merge_loop(self, other, i + 1, diffIdx)
    ELSE IF diffIdx # -1 THEN -2
    ELSE merge_loop(self, other, i + 1, i)

\* try_merge without the check for a second difference: the loop keeps the
\* last difference it found.
RECURSIVE last_diff(_, _, _, _)
last_diff(self, other, i, diffIdx) ==
    IF i >= Len(self.vec) THEN diffIdx
    ELSE last_diff(self, other, i + 1,
                   IF self.vec[i + 1] = other.vec[i + 1] THEN diffIdx ELSE i)

try_merge_any_diff(self, other) ==
    LET diffIdx == last_diff(self, other, 0, -1)
        newImpl == get_copy(self) IN
    [newImpl EXCEPT
        !.minterms = @ \o other.minterms,
        !.vec = IF diffIdx # -1 THEN [@ EXCEPT ![diffIdx + 1] = None] ELSE @]

\* try_merge that also returns None when no difference was found.
try_merge_one_diff(self, other) ==
    LET diffIdx == merge_loop(self, other, 0, -1) IN
    IF diffIdx < 0 THEN NoImplicant
    ELSE LET newImpl == get_copy(self) IN
         [newImpl EXCEPT
            !.minterms = @ \o other.minterms,
            !.vec = [@ EXCEPT ![diffIdx + 1] = None]]

\* try_merge that leaves the other's minterms out of the merged implicant.
try_merge_own_minterms(self, other) ==
    LET diffIdx == merge_loop(self, other, 0, -1) IN
    IF diffIdx = -2 THEN NoImplicant
    ELSE LET newImpl == get_copy(self) IN
         [newImpl EXCEPT
            !.vec = IF diffIdx # -1
                    THEN [@ EXCEPT ![diffIdx + 1] = None]
                    ELSE @]

\* Implicant.try_merge: unless the loop returned None, the copy of self gets
\* the other's minterms appended and, if a difference was found, None at
\* its position.
try_merge(self, other) ==
    LET diffIdx == merge_loop(self, other, 0, -1) IN
    IF diffIdx = -2 THEN NoImplicant
    ELSE LET newImpl == get_copy(self) IN
         [newImpl EXCEPT
            !.minterms = @ \o other.minterms,
            !.vec = IF diffIdx # -1
                    THEN [@ EXCEPT ![diffIdx + 1] = None]
                    ELSE @]

\* Implicant.get: the literals joined by "&", "-1" without any literal.
RECURSIVE impl_get_from(_, _, _, _)
impl_get_from(impl, variables, k, s) ==
    IF k > Len(impl.vec) THEN s
    ELSE IF impl.vec[k] = None THEN impl_get_from(impl, variables, k + 1, s)
    ELSE impl_get_from(impl, variables, k + 1,
            s \o (IF Len(s) > 0 THEN <<"&">> ELSE <<>>)
              \o (IF impl.vec[k] = 0 THEN <<"~">> ELSE <<>>)
              \o variables[k])

impl_get(impl, variables) ==
    LET s == impl_get_from(impl, variables, 1, <<>>) IN
    IF Len(s) > 0 THEN s ELSE <<"-", "1">>

-----------------------------------------------------------------------------
\* Bitwise (bitwise.py): the formula tree the minimizer assembles.

\* Bitwise(bType, negated = False, vidx = -1).
Bitwise(bType, negated, vidx) ==
    [type |-> bType, negated |-> negated, vidx |-> vidx, children |-> <<>>]

\* Bitwise.add_child.
add_child(node, child) ==
    [node EXCEPT !.children = Append(@, child)]

\* Bitwise.add_variable(vidx, negated).
add_variable(node, vidx, negated) ==
    add_child(node, Bitwise("VARIABLE", negated, vidx))

\* Implicant.to_bitwise.
RECURSIVE impl_conj(_, _, _)
impl_conj(impl, k, conj) ==
    IF k > Len(impl.vec) THEN conj
    ELSE IF impl.vec[k] = None THEN impl_conj(impl, k + 1, conj)
    ELSE impl_conj(impl, k + 1, add_variable(conj, k - 1, impl.vec[k] = 0))

impl_to_bitwise(impl) ==
    LET conj == impl_conj(impl, 1, Bitwise("CONJUNCTION", FALSE, -1))
        cnt == Len(conj.children) IN
    IF cnt = 0 THEN Bitwise("TRUE", FALSE, -1)
    ELSE IF cnt = 1 THEN conj.children[1]
    ELSE conj

\* The value of a formula tree at the assignment whose bit k is the value of
\* variable k.  The trees built here are at most three levels deep.
EvalLeaf(node, assignment) ==
    LET raw == IF node.type = "TRUE" THEN TRUE
               ELSE (assignment \div Pow2(node.vidx)) % 2 = 1
    IN raw # node.negated

EvalConj(node, assignment) ==
    IF node.type = "CONJUNCTION"
    THEN (\A k \in DOMAIN node.children :
             EvalLeaf(node.children[k], assignment)) # node.negated
    ELSE EvalLeaf(node, assignment)

EvalBitwise(node, assignment) ==
    IF node.type = "INCL_DISJUNCTION"
    THEN (\E k \in DOMAIN node.children :
             EvalConj(node.children[k], assignment)) # node.negated
    ELSE EvalConj(node, assignment)

-----------------------------------------------------------------------------
\* Dnf (dnf.py).

\* Dnf.__init_groups: one implicant per 1 of the vector, in the order of the
\* indices, classified by the number of ones of its index.
init_groups(vn, v) ==
    [g \in 1..(vn + 1) |->
        LET idxs == SelectSeq([n \in 1..Len(v) |-> n - 1],
                        LAMBDA idx : v[idx + 1] = 1 /\ popcount(idx) = g - 1)
        IN [n \in 1..Len(idxs) |-> Implicant(vn, idxs[n])]]

\* The results of try_merge for group g and its next group, in the order of
\* the two nested loops (impl1 outer, impl2 inner), None results included.
MergeAttempts(grps, g) ==
    LET group == grps[g]
        nextGroup == grps[g + 1]
        n2 == Len(nextGroup)
    IN [n \in 1..(Len(group) * n2) |->
           try_merge(group[((n - 1) \div n2) + 1], nextGroup[((n - 1) % n2) + 1])]

\* The new implicants of group g and its next group.
MergedOf(grps, g) ==
    IF g < Len(grps)
    THEN SelectSeq(MergeAttempts(grps, g), LAMBDA m : m # NoImplicant)
    ELSE <<>>

\* impl.obsolete of the i-th implicant of group g once the loops over the
\* pairs (g - 1, g) and (g, g + 1) are through.
ObsoleteAfter(grps, g, i) ==
    \/ grps[g][i].obsolete
    \/ /\ g < Len(grps)
       /\ \E j \in DOMAIN grps[g + 1] :
              try_merge(grps[g][i], grps[g + 1][j]) # NoImplicant
    \/ /\ g > 1
       /\ \E j \in DOMAIN grps[g - 1] :
              try_merge(grps[g - 1][j], grps[g][i]) # NoImplicant

\* The implicants of group g appended to primes by __merge_step.
UnmergedOf(grps, g) ==
    LET idxs == SelectSeq([n \in 1..Len(grps[g]) |-> n],
                          LAMBDA i : ~ObsoleteAfter(grps, g, i))
    IN [n \in 1..Len(idxs) |-> grps[g][idxs[n]]]

\* __merge_step with changed initialised to True.
merge_step_changed(grps) ==
    LET merged == [g \in 1..Len(grps) |-> MergedOf(grps, g)]
        all == Flatten(merged)
    IN [newGroups |-> [c \in 1..Len(grps) |->
                          SelectSeq(all, LAMBDA m : count_ones(m) = c - 1)],
        newPrimes |-> Flatten([g \in 1..Len(grps) |-> UnmergedOf(grps, g)]),
        changed |-> TRUE]

\* Dnf.__merge_step: the new groups, the primes appended, and changed.
merge_step(grps) ==
    LET merged == [g \in 1..Len(grps) |-> MergedOf(grps, g)]
        all == Flatten(merged)
    IN [newGroups |-> [c \in 1..Len(grps) |->
                          SelectSeq(all, LAMBDA m : count_ones(m) = c - 1)],
        newPrimes |-> Flatten([g \in 1..Len(grps) |-> UnmergedOf(grps, g)]),
        changed |-> all # <<>>]

RECURSIVE add_primes(_, _, _)
add_primes(disj, ps, k) ==
    IF k > Len(ps) THEN disj
    ELSE add_primes(add_child(disj, impl_to_bitwise(ps[k])), ps, k + 1)

\* to_bitwise without the negation of the node for no primes.
to_bitwise_plain_true(ps) ==
    LET cnt == Len(ps) IN
    IF cnt = 0 THEN Bitwise("TRUE", FALSE, -1)
    ELSE IF cnt = 1 THEN impl_to_bitwise(ps[1])
    ELSE add_primes(Bitwise("INCL_DISJUNCTION", FALSE, -1), ps, 1)

\* Dnf.to_bitwise.
to_bitwise(ps) ==
    LET cnt == Len(ps) IN
    IF cnt = 0 THEN Bitwise("TRUE", TRUE, -1)
    ELSE IF cnt = 1 THEN impl_to_bitwise(ps[1])
    ELSE add_primes(Bitwise("INCL_DISJUNCTION", FALSE, -1), ps, 1)

\* Dnf.get: the conjunctions joined by "|", one in parentheses if there
\* are several primes and it contains "&".
RECURSIVE dnf_get_from(_, _, _, _)
dnf_get_from(ps, variables, k, s) ==
    IF k > Len(ps) THEN s
    ELSE LET str == impl_get(ps[k], variables)
             withPar == Len(ps) > 1 /\ "&" \in Range(str)
         IN dnf_get_from(ps, variables, k + 1,
               s \o (IF Len(s) > 0 THEN <<"|">> ELSE <<>>)
                 \o (IF withPar THEN <<"(">> \o str \o <<")">> ELSE str))

dnf_get(ps, variables) ==
    IF Len(ps) = 0 THEN <<"0">> ELSE dnf_get_from(ps, variables, 1, <<>>)

\* The names handed to Dnf.get, one per variable.
VarNames == <<"a", "b", "c", "d", "e">>
variablesOf(vn) == [k \in 1..vn |-> <<VarNames[k]>>]

\* The value of "nothing returned yet".
NoBitwise == Bitwise("NONE", FALSE, -1)
NoStr == <<"?">>

-----------------------------------------------------------------------------
\* Node (node.py): a node of the expression tree.

\* Node(nodeType, modulus, modRed): the node keeps its type, the modulus and
\* the flag; it starts without children, constant or name.
Node(t, modulus, modRed) ==
    [type |-> t, children |-> <<>>, constant |-> 0, vname |-> <<>>,
     modulus |-> modulus, modRed |-> modRed]

\* Python's None where a node is expected.
NoNode == [type |-> "None"]

-----------------------------------------------------------------------------
\* Parser (parse.py).  The object's fields that never change after
\* __init__ are the record P; __idx and __error are threaded through the
\* operators: each parse operator takes the index it starts at and returns
\* the node (or NoNode), the index it stopped at and the error it set.

\* Parser.__init__: the modulus argument is not used, __modulus is 32.
Parser(text, modulus, modRed) ==
    [expr |-> text, modulus |-> 32, modRed |-> modRed]

Res(node, idx) == [node |-> node, idx |-> idx, error |-> ""]
Fail(idx, error) == [node |-> NoNode, idx |-> idx, error |-> error]

\* Parser.__new_node.
new_node(P, t) == Node(t, P.modulus, P.modRed)

\* Parser.__peek and Parser.__peek_next.
peek(P, idx) == IF idx >= Len(P.expr) THEN "" ELSE P.expr[idx + 1]
peek_next(P, idx) == IF idx >= Len(P.expr) - 1 THEN "" ELSE P.expr[idx + 2]

Letters == {"a", "b", "c", "d", "e", "f", "g", "h", "i", "j", "k", "l", "m",
            "n", "o", "p", "q", "r", "s", "t", "u", "v", "w", "x", "y", "z",
            "A", "B", "C", "D", "E", "F", "G", "H", "I", "J", "K", "L", "M",
            "N", "O", "P", "Q", "R", "S", "T", "U", "V", "W", "X", "Y", "Z"}
DecimalDigits == {"0", "1", "2", "3", "4", "5", "6", "7", "8", "9"}
HexLetters == {"a", "b", "c", "d", "e", "f", "A", "B", "C", "D", "E", "F"}

\* The __has_... tests of the character at idx.
has_bitwise_negated_expression(P, idx) == peek(P, idx) = "~"
has_negative_expression(P, idx) == peek(P, idx) = "-"
has_multiplicator(P, idx) == peek(P, idx) = "*" /\ peek_next(P, idx) # "*"
has_power(P, idx) == peek(P, idx) = "*" /\ peek_next(P, idx) = "*"
has_lshift(P, idx) == peek(P, idx) = "<" /\ peek_next(P, idx) = "<"
has_binary_constant(P, idx) == peek(P, idx) = "0" /\ peek_next(P, idx) = "b"
has_hex_constant(P, idx) == peek(P, idx) = "0" /\ peek_next(P, idx) = "x"
has_decimal_digit(P, idx) == peek(P, idx) \in DecimalDigits
has_hex_digit(P, idx) ==
    has_decimal_digit(P, idx) \/ peek(P, idx) \in HexLetters
has_letter(P, idx) == peek(P, idx) \in Letters
has_variable(P, idx) == has_letter(P, idx)
has_space(P, idx) == peek(P, idx) = " "

\* The loop "while self.__has_space(): self.__skip_space()".
RECURSIVE skip_spaces(_, _)
skip_spaces(P, idx) ==
    IF has_space(P, idx) THEN skip_spaces(P, idx + 1) ELSE idx

\* Parser.__get: the index after the character and, if asked, the spaces.
get(P, idx, skipSpace) ==
    IF skipSpace THEN skip_spaces(P, idx + 1) ELSE idx + 1

\* expr[start:idx].rstrip(): the slice without its trailing spaces.
RECURSIVE rstrip(_)
rstrip(s) ==
    IF s # <<>> /\ s[Len(s)] = " " THEN rstrip(SubSeq(s, 1, Len(s) - 1)) ELSE s

Slice(P, start, idx) == rstrip(SubSeq(P.expr, start + 1, idx))

\* The value of a digit in int(text, base).
DigitValue(c) ==
    CASE c = "0" -> 0 [] c = "1" -> 1 [] c = "2" -> 2 [] c = "3" -> 3
      [] c = "4" -> 4 [] c = "5" -> 5 [] c = "6" -> 6 [] c = "7" -> 7
      [] c = "8" -> 8 [] c = "9" -> 9
      [] c \in {"a", "A"} -> 10 [] c \in {"b", "B"} -> 11
      [] c \in {"c", "C"} -> 12 [] c \in {"d", "D"} -> 13
      [] c \in {"e", "E"} -> 14 [] c \in {"f", "F"} -> 15

\* int(text, base) of a run of digits.
RECURSIVE IntOf(_, _)
IntOf(s, base) ==
    IF s = <<>> THEN 0
    ELSE IntOf(SubSeq(s, 1, Len(s) - 1), base) * base + DigitValue(s[Len(s)])

\* Parser.__get_constant.
get_constant(P, start, idx, base) == IntOf(Slice(P, start, idx), base)

\* The loops that step over the characters of a name or of a number.
RECURSIVE skip_name(_, _)
skip_name(P, idx) ==
    IF has_decimal_digit(P, idx) \/ has_letter(P, idx) \/ peek(P, idx) = "_"
    THEN skip_name(P, idx + 1) ELSE idx

RECURSIVE skip_decimal(_, _)
skip_decimal(P, idx) ==
    IF has_decimal_digit(P, idx) THEN skip_decimal(P, idx + 1) ELSE idx

RECURSIVE skip_binary(_, _)
skip_binary(P, idx) ==
    IF peek(P, idx) \in {"0", "1"} THEN skip_binary(P, idx + 1) ELSE idx

RECURSIVE skip_hex(_, _)
skip_hex(P, idx) ==
    IF has_hex_digit(P, idx) THEN skip_hex(P, idx + 1) ELSE idx

\* A CONSTANT node with the given value, and a VARIABLE node.
ConstantNode(P, value) == [new_node(P, "CONSTANT") EXCEPT !.constant = value]
VariableNode(P, name) == [new_node(P, "VARIABLE") EXCEPT !.vname = name]

\* Parser.__parse_variable.
parse_variable(P, start) ==
    LET afterName == skip_name(P, get(P, start, FALSE)) IN
    IF peek(P, afterName) = "["
    THEN LET afterDigits == skip_decimal(P, get(P, afterName, FALSE)) IN
         IF peek(P, afterDigits) = "]"
         THEN LET idx == get(P, afterDigits, TRUE) IN
              Res(VariableNode(P, Slice(P, start, idx)), idx)
         ELSE Fail(afterDigits, "")
    ELSE LET idx == skip_spaces(P, afterName) IN
         Res(VariableNode(P, Slice(P, start, idx)), idx)

\* Parser.__parse_binary_constant.
parse_binary_constant(P, idx0) ==
    LET start == get(P, get(P, idx0, FALSE), FALSE) IN
    IF peek(P, start) \notin {"0", "1"}
    THEN Fail(start, "Invalid binary digit")
    ELSE LET digitsEnd == skip_binary(P, start)
             idx == skip_spaces(P, digitsEnd)
         IN Res(ConstantNode(P, get_constant(P, start, idx, 2)), idx)

\* Parser.__parse_hex_constant.
parse_hex_constant(P, idx0) ==
    LET start == get(P, get(P, idx0, FALSE), FALSE) IN
    IF ~has_hex_digit(P, start)
    THEN Fail(start, "Invalid hex digit")
    ELSE LET digitsEnd == skip_hex(P, start)
             idx == skip_spaces(P, digitsEnd)
         IN Res(ConstantNode(P, get_constant(P, start, idx, 16)), idx)

\* Parser.__parse_decimal_constant.
parse_decimal_constant(P, start) ==
    IF ~has_decimal_digit(P, start)
    THEN Fail(start, "Expecting constant")
    ELSE LET digitsEnd == skip_decimal(P, start)
             idx == skip_spaces(P, digitsEnd)
         IN Res(ConstantNode(P, get_constant(P, start, idx, 10)), idx)

\* Parser.__parse_constant.
parse_constant(P, idx) ==
    IF has_binary_constant(P, idx) THEN parse_binary_constant(P, idx)
    ELSE IF has_hex_constant(P, idx) THEN parse_hex_constant(P, idx)
    ELSE parse_decimal_constant(P, idx)

\* __multiply_by_minus_one that always makes a new product.
multiply_by_minus_one_wrapped(P, node) ==
    [new_node(P, "PRODUCT") EXCEPT !.children = <<ConstantNode(P, -1), node>>]

\* Parser.__multiply_by_minus_one.
multiply_by_minus_one(P, node) ==
    IF node.type = "CONSTANT"
    THEN [node EXCEPT !.constant = -node.constant]
    ELSE IF node.type = "PRODUCT"
    THEN IF node.children[1].type = "CONSTANT"
         THEN [node EXCEPT !.children[1].constant = @ * (-1)]
         ELSE [node EXCEPT !.children = <<ConstantNode(P, -1)>> \o @]
    ELSE [new_node(P, "PRODUCT") EXCEPT
            !.children = <<ConstantNode(P, -1), node>>]

AppendChild(node, child) == [node EXCEPT !.children = Append(@, child)]

\* A local variable of a method: the value is computed once and named.
With(value, Body(_)) == Body(value)

RECURSIVE parse_inclusive_disjunction(_, _)
RECURSIVE inclusive_disjunction_loop(_, _, _)
RECURSIVE parse_exclusive_disjunction(_, _)
RECURSIVE exclusive_disjunction_loop(_, _, _)
RECURSIVE parse_conjunction(_, _)
RECURSIVE conjunction_loop(_, _, _)
RECURSIVE parse_shift(_, _)
RECURSIVE parse_sum(_, _)
RECURSIVE sum_loop(_, _, _)
RECURSIVE parse_product(_, _)
RECURSIVE product_loop(_, _, _)
RECURSIVE parse_factor(_, _)
RECURSIVE parse_bitwise_negated_expression(_, _)
RECURSIVE parse_negative_expression(_, _)
RECURSIVE parse_power(_, _)
RECURSIVE parse_terminal(_, _)

\* Parser.__parse_terminal.
parse_terminal(P, idx) ==
    IF peek(P, idx) = "("
    THEN With(parse_inclusive_disjunction(P, get(P, idx, TRUE)), LAMBDA r :
         IF r.node = NoNode THEN r
         ELSE IF peek(P, r.idx) # ")"
         THEN Fail(r.idx, "Missing closing parentheses")
         ELSE Res(r.node, get(P, r.idx, TRUE)))
    ELSE IF has_variable(P, idx) THEN parse_variable(P, idx)
    ELSE parse_constant(P, idx)

\* Parser.__parse_power.
parse_power(P, idx) ==
    With(parse_terminal(P, idx), LAMBDA base :
    IF base.node = NoNode THEN base
    ELSE IF ~has_power(P, base.idx) THEN base
    ELSE With(parse_terminal(P, get(P, get(P, base.idx, TRUE), TRUE)),
              LAMBDA exp :
         IF exp.node = NoNode THEN exp
         ELSE IF has_power(P, exp.idx)
         THEN Fail(exp.idx, "Disallowed nested power operator")
         ELSE Res([new_node(P, "POWER") EXCEPT
                      !.children = <<base.node, exp.node>>], exp.idx)))

\* Parser.__parse_negative_expression.
parse_negative_expression(P, idx) ==
    With(parse_factor(P, get(P, idx, TRUE)), LAMBDA r :
    IF r.node = NoNode THEN r
    ELSE Res(multiply_by_minus_one(P, r.node), r.idx))

\* Parser.__parse_bitwise_negated_expression.
parse_bitwise_negated_expression(P, idx) ==
    With(parse_factor(P, get(P, idx, TRUE)), LAMBDA r :
    IF r.node = NoNode THEN r
    ELSE Res([new_node(P, "NEGATION") EXCEPT !.children = <<r.node>>], r.idx))

\* Parser.__parse_factor.
parse_factor(P, idx) ==
    IF has_bitwise_negated_expression(P, idx)
    THEN parse_bitwise_negated_expression(P, idx)
    ELSE IF has_negative_expression(P, idx)
    THEN parse_negative_expression(P, idx)
    ELSE parse_power(P, idx)

\* The while loop of Parser.__parse_product.
product_loop(P, node, idx) ==
    IF ~has_multiplicator(P, idx) THEN Res(node, idx)
    ELSE With(parse_factor(P, get(P, idx, TRUE)), LAMBDA child :
         IF child.node = NoNode THEN child
         ELSE product_loop(P, AppendChild(node, child.node), child.idx))

\* __parse_product without the return of a single factor as it is.
parse_product_always_node(P, idx) ==
    With(parse_factor(P, idx), LAMBDA child :
    IF child.node = NoNode THEN child
    ELSE product_loop(P, AppendChild(new_node(P, "PRODUCT"), child.node),
                      child.idx))

\* Parser.__parse_product.
parse_product(P, idx) ==
    With(parse_factor(P, idx), LAMBDA child :
    IF child.node = NoNode THEN child
    ELSE IF ~has_multiplicator(P, child.idx) THEN child
    ELSE product_loop(P, AppendChild(new_node(P, "PRODUCT"), child.node),
                      child.idx))

\* The while loop of Parser.__parse_sum.
sum_loop(P, node, idx) ==
    IF peek(P, idx) # "+" /\ peek(P, idx) # "-" THEN Res(node, idx)
    ELSE LET negative == peek(P, idx) = "-" IN
         With(parse_product(P, get(P, idx, TRUE)), LAMBDA child :
         IF child.node = NoNode THEN child
         ELSE sum_loop(P,
                 AppendChild(node,
                     IF negative THEN multiply_by_minus_one(P, child.node)
                     ELSE child.node),
                 child.idx))

\* __parse_sum whose operands are factors instead of products.
parse_sum_of_factors(P, idx) ==
    With(parse_factor(P, idx), LAMBDA child :
    IF child.node = NoNode THEN child
    ELSE IF peek(P, child.idx) # "+" /\ peek(P, child.idx) # "-" THEN child
    ELSE sum_loop(P, AppendChild(new_node(P, "SUM"), child.node), child.idx))

\* Parser.__parse_sum.
parse_sum(P, idx) ==
    With(parse_product(P, idx), LAMBDA child :
    IF child.node = NoNode THEN child
    ELSE IF peek(P, child.idx) # "+" /\ peek(P, child.idx) # "-" THEN child
    ELSE sum_loop(P, AppendChild(new_node(P, "SUM"), child.node), child.idx))

\* __parse_shift that takes a further shift as its right operand.
RECURSIVE parse_shift_nested(_, _)
parse_shift_nested(P, idx) ==
    With(parse_sum(P, idx), LAMBDA base :
    IF base.node = NoNode THEN base
    ELSE IF ~has_lshift(P, base.idx) THEN base
    ELSE With(parse_shift_nested(P, get(P, get(P, base.idx, TRUE), TRUE)),
              LAMBDA op :
         IF op.node = NoNode THEN op
         ELSE LET power == [new_node(P, "POWER") EXCEPT
                              !.children = <<ConstantNode(P, 2), op.node>>]
              IN Res([new_node(P, "PRODUCT") EXCEPT
                         !.children = <<base.node, power>>], op.idx)))

\* Parser.__parse_shift: "a << b" becomes "a * 2**b".
parse_shift(P, idx) ==
    With(parse_sum(P, idx), LAMBDA base :
    IF base.node = NoNode THEN base
    ELSE IF ~has_lshift(P, base.idx) THEN base
    ELSE With(parse_sum(P, get(P, get(P, base.idx, TRUE), TRUE)),
              LAMBDA op :
         IF op.node = NoNode THEN op
         ELSE IF has_lshift(P, op.idx)
         THEN Fail(op.idx, "Disallowed nested lshift operator")
         ELSE LET power == [new_node(P, "POWER") EXCEPT
                              !.children = <<ConstantNode(P, 2), op.node>>]
              IN Res([new_node(P, "PRODUCT") EXCEPT
                         !.children = <<base.node, power>>], op.idx)))

\* The while loop of Parser.__parse_conjunction.
conjunction_loop(P, node, idx) ==
    IF peek(P, idx) # "&" THEN Res(node, idx)
    ELSE With(parse_shift(P, get(P, idx, TRUE)), LAMBDA child :
         IF child.node = NoNode THEN child
         ELSE conjunction_loop(P, AppendChild(node, child.node), child.idx))

\* Parser.__parse_conjunction.
parse_conjunction(P, idx) ==
    With(parse_shift(P, idx), LAMBDA child :
    IF child.node = NoNode THEN child
    ELSE IF peek(P, child.idx) # "&" THEN child
    ELSE conjunction_loop(P,
            AppendChild(new_node(P, "CONJUNCTION"), child.node), child.idx))

\* The while loop of Parser.__parse_exclusive_disjunction.
exclusive_disjunction_loop(P, node, idx) ==
    IF peek(P, idx) # "^" THEN Res(node, idx)
    ELSE With(parse_conjunction(P, get(P, idx, TRUE)), LAMBDA child :
         IF child.node = NoNode THEN child
         ELSE exclusive_disjunction_loop(P, AppendChild(node, child.node),
                                         child.idx))

\* Parser.__parse_exclusive_disjunction.
parse_exclusive_disjunction(P, idx) ==
    With(parse_conjunction(P, idx), LAMBDA child :
    IF child.node = NoNode THEN child
    ELSE IF peek(P, child.idx) # "^" THEN child
    ELSE exclusive_disjunction_loop(P,
            AppendChild(new_node(P, "EXCL_DISJUNCTION"), child.node),
            child.idx))

\* The while loop of Parser.__parse_inclusive_disjunction.
inclusive_disjunction_loop(P, node, idx) ==
    IF peek(P, idx) # "|" THEN Res(node, idx)
    ELSE With(parse_exclusive_disjunction(P, get(P, idx, TRUE)),
              LAMBDA child :
         IF child.node = NoNode THEN child
         ELSE inclusive_disjunction_loop(P, AppendChild(node, child.node),
                                         child.idx))

\* Parser.__parse_inclusive_disjunction.
parse_inclusive_disjunction(P, idx) ==
    With(parse_exclusive_disjunction(P, idx), LAMBDA child :
    IF child.node = NoNode THEN child
    ELSE IF peek(P, child.idx) # "|" THEN child
    ELSE inclusive_disjunction_loop(P,
            AppendChild(new_node(P, "INCL_DISJUNCTION"), child.node),
            child.idx))

\* Parser.parse_expression: one leading space is skipped, then the
\* expression is parsed, then the trailing spaces are skipped; anything
\* left is an error.
parse_expression(P) ==
    LET start == IF has_space(P, 0) THEN 1 ELSE 0
        res == parse_inclusive_disjunction(P, start)
        idx == skip_spaces(P, res.idx)
    IN IF idx # Len(P.expr)
       THEN Fail(idx, "Finished before everything was parsed")
       ELSE [res EXCEPT !.idx = idx]

-----------------------------------------------------------------------------
\* The run of Dnf(vnumber, vec).

\* No call of parse is under way.
ParseIdle ==
    /\ operands = <<>> /\ ops = <<>> /\ spaces = 0
    /\ natoms = 0 /\ ngroups = 0 /\ nprefixes = 0
    /\ parsePc = "idle"
    /\ expr = <<>> /\ bitCount = 0 /\ reduceConstants = FALSE
    /\ refine = FALSE /\ marklinear = FALSE
    /\ root = NoNode /\ refined = FALSE /\ marked = FALSE
    /\ tokens = <<>> /\ gaps = <<>>

IdleImpl == [vec |-> <<>>, minterms |-> <<>>, obsolete |-> FALSE]

\* Dnf.__init__ up to the call of __init_groups: both lists empty.
Init ==
    /\ vnumber \in 1..MaxVars
    /\ vec \in [1..Pow2(vnumber) -> {0, 1}]
    /\ groups = <<>>
    /\ primes = <<>>
    /\ pc = "init"
    /\ rounds = 0
    /\ requ = {}
    /\ dropIdx = 0
    /\ bitwise = NoBitwise
    /\ dnfStr = NoStr
    /\ implA = IdleImpl /\ implB = IdleImpl /\ mergeRes = IdleImpl
    /\ implPc = "idle"
    /\ ParseIdle

InitGroups ==
    /\ pc = "init"
    /\ groups' = init_groups(vnumber, vec)
    /\ pc' = "merge"
    /\ UNCHANGED <<vnumber, vec, primes, rounds, requ, dropIdx, bitwise,
                   dnfStr, implVars, parseVars>>

\* One pass of the loop of Dnf.__merge.
MergeStep ==
    /\ pc = "merge"
    /\ LET r == merge_step(groups) IN
        /\ groups' = r.newGroups
        /\ primes' = primes \o r.newPrimes
        /\ pc' = IF r.changed THEN "merge" ELSE "prune"
    /\ rounds' = rounds + 1
    /\ UNCHANGED <<vnumber, vec, requ, dropIdx, bitwise, dnfStr, implVars, parseVars>>

\* __drop_unrequired_implicants up to its loop.
DropInit ==
    /\ pc = "prune"
    /\ requ' = {i \in 0..(Len(vec) - 1) : vec[i + 1] = 1}
    /\ dropIdx' = 0
    /\ pc' = "drop"
    /\ UNCHANGED <<vnumber, vec, groups, primes, rounds, bitwise, dnfStr,
                   implVars, parseVars>>

\* The pass whose kept primes leave the outstanding set as it is.
DropStep_requ_kept ==
    /\ pc = "drop"
    /\ dropIdx < Len(primes)
    /\ LET impl == primes[dropIdx + 1]
           mtSet == Range(impl.minterms)
       IN IF mtSet \cap requ # {}
          THEN /\ requ' = requ
               /\ dropIdx' = dropIdx + 1
               /\ primes' = primes
          ELSE /\ primes' = [n \in 1..(Len(primes) - 1) |->
                                IF n <= dropIdx THEN primes[n]
                                ELSE primes[n + 1]]
               /\ UNCHANGED <<requ, dropIdx>>
    /\ UNCHANGED <<vnumber, vec, groups, pc, rounds, bitwise, dnfStr,
                   implVars, parseVars>>

\* One pass of the loop of __drop_unrequired_implicants.
DropStep ==
    /\ pc = "drop"
    /\ dropIdx < Len(primes)
    /\ LET impl == primes[dropIdx + 1]
           mtSet == Range(impl.minterms)
       IN IF mtSet \cap requ # {}
          THEN /\ requ' = requ \ mtSet
               /\ dropIdx' = dropIdx + 1
               /\ primes' = primes
          ELSE /\ primes' = [n \in 1..(Len(primes) - 1) |->
                                IF n <= dropIdx THEN primes[n]
                                ELSE primes[n + 1]]
               /\ UNCHANGED <<requ, dropIdx>>
    /\ UNCHANGED <<vnumber, vec, groups, pc, rounds, bitwise, dnfStr,
                   implVars, parseVars>>

\* The loop of __drop_unrequired_implicants ends; the constructor returns.
DropReturn ==
    /\ pc = "drop"
    /\ dropIdx >= Len(primes)
    /\ pc' = "done"
    /\ UNCHANGED <<vnumber, vec, groups, primes, rounds, requ, dropIdx,
                   bitwise, dnfStr, implVars, parseVars>>

ToBitwise ==
    /\ pc = "done"
    /\ bitwise' = to_bitwise(primes)
    /\ UNCHANGED <<vnumber, vec, groups, primes, pc, rounds, requ, dropIdx,
                   dnfStr, implVars, parseVars>>

Get ==
    /\ pc = "done"
    /\ dnfStr' = dnf_get(primes, variablesOf(vnumber))
    /\ UNCHANGED <<vnumber, vec, groups, primes, pc, rounds, requ, dropIdx,
                   bitwise, implVars, parseVars>>

Next ==
    \/ InitGroups
    \/ MergeStep
    \/ DropInit
    \/ DropStep
    \/ DropReturn
    \/ ToBitwise
    \/ Get

vars == <<dnfVars, implVars, parseVars>>

Spec == Init /\ [][Next]_vars

-----------------------------------------------------------------------------
\* A single call a.try_merge(b) on two implicants of equal vector length.

\* The indices an implicant vector stands for, ascending: those that agree
\* with every entry that is not None.
CoverOf(v) ==
    SelectSeq([n \in 1..Pow2(Len(v)) |-> n - 1],
              LAMBDA idx : \A k \in DOMAIN v :
                              v[k] = None \/ v[k] = (idx \div Pow2(k - 1)) % 2)

ImplicantOf(v) == [vec |-> v, minterms |-> CoverOf(v), obsolete |-> FALSE]

InitImpl ==
    /\ \E n \in 1..MaxVecLen :
          \E va, vb \in [1..n -> {0, 1, None}] :
              /\ implA = ImplicantOf(va)
              /\ implB = ImplicantOf(vb)
    /\ mergeRes = IdleImpl
    /\ implPc = "ready"
    /\ vnumber = 0 /\ vec = <<>> /\ groups = <<>> /\ primes = <<>>
    /\ pc = "idle" /\ rounds = 0 /\ requ = {} /\ dropIdx = 0
    /\ bitwise = NoBitwise /\ dnfStr = NoStr
    /\ ParseIdle

TryMerge ==
    /\ implPc = "ready"
    /\ mergeRes' = try_merge(implA, implB)
    /\ implPc' = "returned"
    /\ UNCHANGED <<implA, implB, dnfVars, parseVars>>

NextImpl == TryMerge

SpecImpl == InitImpl /\ [][NextImpl]_vars

-----------------------------------------------------------------------------
\* A call parse(expr, bitCount, reduceConstants, refine, marklinear).  The
\* text handed over is written first: a chain of operands joined by binary
\* operators, where an operand is a variable, a literal, a parenthesized
\* chain, or one of these behind unary operators.

\* The binary operators of the grammar.
BinaryOps == {"|", "^", "&", "<<", "+", "-", "*", "**"}
UnaryOps == {"-", "~"}

\* The characters of an operator.
OpChars(op) ==
    CASE op = "<<" -> <<"<", "<">>
      [] op = "**" -> <<"*", "*">>
      [] OTHER -> <<op>>

\* The variables and literals that can be written as the n-th of a text.
AtomsAt(n) ==
    CASE n = 1 -> {<<"a">>, <<"5">>}
      [] n = 2 -> {<<"b">>, <<"2">>}
      [] n = 3 -> {<<"c">>, <<"0", "x", "1", "f">>}
      [] n = 4 -> {<<"d", "_", "1", "[", "3", "]">>, <<"0", "b", "1", "0", "1">>}
      [] OTHER -> {<<"e">>, <<"1", "2">>}

Blanks(n) == [k \in 1..n |-> " "]

\* The text of a chain: the operands joined by the operators, sp spaces on
\* both sides of every operator.
RECURSIVE Render(_, _, _)
Render(opnds, oprs, sp) ==
    IF Len(opnds) <= 1 THEN Flatten(opnds)
    ELSE Head(opnds) \o Blanks(sp) \o OpChars(Head(oprs)) \o Blanks(sp)
            \o Render(Tail(opnds), Tail(oprs), sp)

InitParse ==
    /\ \E atom \in AtomsAt(1) : operands = <<atom>>
    /\ ops = <<>>
    /\ spaces \in 0..MaxSpaces
    /\ natoms = 1 /\ ngroups = 0 /\ nprefixes = 0
    /\ parsePc = "build"
    /\ expr = <<>> /\ bitCount = 0 /\ reduceConstants = FALSE
    /\ refine = FALSE /\ marklinear = FALSE
    /\ root = NoNode /\ refined = FALSE /\ marked = FALSE
    /\ tokens = <<>> /\ gaps = <<>>
    /\ vnumber = 0 /\ vec = <<>> /\ groups = <<>> /\ primes = <<>>
    /\ pc = "idle" /\ rounds = 0 /\ requ = {} /\ dropIdx = 0
    /\ bitwise = NoBitwise /\ dnfStr = NoStr
    /\ implA = IdleImpl /\ implB = IdleImpl /\ mergeRes = IdleImpl
    /\ implPc = "idle"

\* Write a binary operator and a further variable or literal.
AppendOperand(op, atom) ==
    /\ parsePc = "build"
    /\ natoms < MaxOperands
    /\ operands' = Append(operands, atom)
    /\ ops' = Append(ops, op)
    /\ natoms' = natoms + 1
    /\ UNCHANGED <<spaces, ngroups, nprefixes, parsePc, callVars, spaceVars,
                   dnfVars,
                   implVars>>

\* Put the last k operands in parentheses: they become one operand.
Group(k) ==
    /\ parsePc = "build"
    /\ ngroups < MaxGroups
    /\ LET n == Len(operands)
           inner == Render(SubSeq(operands, n - k + 1, n),
                           SubSeq(ops, n - k + 1, n - 1), spaces)
       IN /\ operands' = Append(SubSeq(operands, 1, n - k),
                                <<"(">> \o inner \o <<")">>)
          /\ ops' = SubSeq(ops, 1, n - k)
    /\ ngroups' = ngroups + 1
    /\ UNCHANGED <<spaces, natoms, nprefixes, parsePc, callVars, spaceVars,
                   dnfVars,
                   implVars>>

\* Write a unary operator in front of the k-th operand.
Prefix(u, k) ==
    /\ parsePc = "build"
    /\ nprefixes < MaxPrefixes
    /\ operands' = [operands EXCEPT ![k] = <<u>> \o @]
    /\ nprefixes' = nprefixes + 1
    /\ UNCHANGED <<ops, spaces, natoms, ngroups, parsePc, callVars, spaceVars,
                   dnfVars,
                   implVars>>

\* parse, first two statements: the parser is made and parses the text.
ParseExpression(bc, rc) ==
    /\ parsePc = "build"
    /\ LET text == Render(operands, ops, spaces)
           parser == Parser(text, Pow2(bc), rc)
       IN /\ expr' = text
          /\ root' = parse_expression(parser).node
    /\ bitCount' = bc
    /\ reduceConstants' = rc
    /\ parsePc' = "parsed"
    /\ UNCHANGED <<textVars, spaceVars, refine, marklinear, refined, marked,
                   dnfVars,
                   implVars>>

\* The end of parse with the arguments checked before the tree.
parse_end_args_first(rt, rf, ml) ==
    IF ml /\ ~rf THEN "exited" ELSE "returned"

\* How the rest of parse ends: with sys.exit if a tree was parsed and linear
\* subexpressions are to be marked without refinement, else with a return.
parse_end(rt, rf, ml) ==
    IF rt # NoNode /\ ml /\ ~rf THEN "exited" ELSE "returned"

\* parse, the rest: refinement and marking of a parsed tree as asked for,
\* both done by the node itself.  The arguments refine and marklinear are
\* read here for the first time.
Finish(rf, ml) ==
    /\ parsePc = "parsed"
    /\ refine' = rf
    /\ marklinear' = ml
    /\ refined' = (root # NoNode /\ rf)
    /\ marked' = (root # NoNode /\ ml /\ rf)
    /\ parsePc' = parse_end(root, rf, ml)
    /\ UNCHANGED <<textVars, spaceVars, expr, bitCount, reduceConstants, root,
                   dnfVars,
                   implVars>>

NextParse ==
    \/ \E op \in BinaryOps : \E atom \in AtomsAt(natoms + 1) :
          AppendOperand(op, atom)
    \/ \E k \in 2..Len(operands) : Group(k)
    \/ \E u \in UnaryOps : \E k \in 1..Len(operands) : Prefix(u, k)
    \/ \E bc \in 1..MaxBitCount : \E rc \in BOOLEAN : ParseExpression(bc, rc)
    \/ \E rf \in BOOLEAN : \E ml \in BOOLEAN : Finish(rf, ml)

SpecParse == InitParse /\ [][NextParse]_vars

-----------------------------------------------------------------------------
\* A call of parse on a text written token by token: the tokens of an
\* expression, with any number of spaces up to MaxGap before the first token,
\* between two adjacent tokens and after the last.

\* The tokens of the grammar that name a variable or a number.
OperandTokens ==
    {<<"a">>, <<"x", "1", "[", "2", "]">>, <<"5">>, <<"0", "x", "1", "f">>,
     <<"0", "b", "1", "0">>}

\* The operators that stand between two operands, and those that stand
\* before one.
BinaryTokens ==
    {<<"|">>, <<"^">>, <<"&">>, <<"<", "<">>, <<"+">>, <<"-">>, <<"*">>,
     <<"*", "*">>}
UnaryTokens == {<<"-">>, <<"~">>}

\* The text of the tokens toks with sp[k] spaces before token k and
\* sp[Len(toks) + 1] spaces after the last.
RECURSIVE SpacedFrom(_, _, _)
SpacedFrom(toks, sp, k) ==
    IF k > Len(toks) THEN Blanks(sp[k])
    ELSE Blanks(sp[k]) \o toks[k] \o SpacedFrom(toks, sp, k + 1)

SpacedText(toks, sp) == SpacedFrom(toks, sp, 1)

\* The text of the tokens without any space.
PlainText(toks) == Flatten(toks)

InitSpaces ==
    /\ \E o \in OperandTokens : tokens = <<o>>
    /\ gaps = <<0, 0>>
    /\ operands = <<>> /\ ops = <<>> /\ spaces = 0
    /\ natoms = 0 /\ ngroups = 0 /\ nprefixes = 0
    /\ parsePc = "write"
    /\ expr = <<>> /\ bitCount = 0 /\ reduceConstants = FALSE
    /\ refine = FALSE /\ marklinear = FALSE
    /\ root = NoNode /\ refined = FALSE /\ marked = FALSE
    /\ vnumber = 0 /\ vec = <<>> /\ groups = <<>> /\ primes = <<>>
    /\ pc = "idle" /\ rounds = 0 /\ requ = {} /\ dropIdx = 0
    /\ bitwise = NoBitwise /\ dnfStr = NoStr
    /\ implA = IdleImpl /\ implB = IdleImpl /\ mergeRes = IdleImpl
    /\ implPc = "idle"

\* Write a unary operator before the expression.
UnaryToken(u) ==
    /\ parsePc = "write"
    /\ Len(tokens) + 1 <= MaxTokens
    /\ tokens' = <<u>> \o tokens
    /\ gaps' = <<0>> \o gaps
    /\ UNCHANGED <<textVars, parsePc, callVars, dnfVars, implVars>>

\* Write a binary operator and a further operand after the expression.
BinaryToken(b, o) ==
    /\ parsePc = "write"
    /\ Len(tokens) + 2 <= MaxTokens
    /\ tokens' = tokens \o <<b, o>>
    /\ gaps' = gaps \o <<0, 0>>
    /\ UNCHANGED <<textVars, parsePc, callVars, dnfVars, implVars>>

\* Put the expression in parentheses.
ParenTokens ==
    /\ parsePc = "write"
    /\ Len(tokens) + 2 <= MaxTokens
    /\ tokens' = <<(<<"(">>)>> \o tokens \o <<(<<")">>)>>
    /\ gaps' = <<0>> \o gaps \o <<0>>
    /\ UNCHANGED <<textVars, parsePc, callVars, dnfVars, implVars>>

\* Write one more space before token k, or after the last token.
PutSpace(k) ==
    /\ parsePc = "write"
    /\ gaps[k] < MaxGap
    /\ gaps' = [gaps EXCEPT ![k] = @ + 1]
    /\ UNCHANGED <<tokens, textVars, parsePc, callVars, dnfVars, implVars>>

\* parse, first two statements, on the text with its spaces.
ParseSpaced(bc, rc) ==
    /\ parsePc = "write"
    /\ LET text == SpacedText(tokens, gaps)
           parser == Parser(text, Pow2(bc), rc)
       IN /\ expr' = text
          /\ root' = parse_expression(parser).node
    /\ bitCount' = bc
    /\ reduceConstants' = rc
    /\ parsePc' = "parsed"
    /\ UNCHANGED <<textVars, spaceVars, refine, marklinear, refined, marked,
                   dnfVars, implVars>>

NextSpaces ==
    \/ \E u \in UnaryTokens : UnaryToken(u)
    \/ \E b \in BinaryTokens : \E o \in OperandTokens : BinaryToken(b, o)
    \/ ParenTokens
    \/ \E k \in DOMAIN gaps : PutSpace(k)
    \/ \E bc \in 1..MaxBitCount : \E rc \in BOOLEAN : ParseSpaced(bc, rc)

SpecSpaces == InitSpaces /\ [][NextSpaces]_vars

-----------------------------------------------------------------------------
\* Properties of the Dnf run (checked under Spec).

\* The value of the conjunction an implicant vector stands for: entry 1 is
\* the variable, entry 0 the negated variable, None no influence.
EvalImplicant(impl, assignment) ==
    \A k \in DOMAIN impl.vec :
        \/ impl.vec[k] = None
        \/ impl.vec[k] = (assignment \div Pow2(k - 1)) % 2

EvalPrimes(ps, assignment) ==
    \E n \in DOMAIN ps : EvalImplicant(ps[n], assignment)

\* C1: once Dnf(v, vec) has run init, merge and prune, the disjunction of
\* the conjunctions of the surviving primes is true at assignment i if and
\* only if vec[i] = 1.
C1_PrimesEquivalentToVec ==
    pc = "done" =>
        \A i \in 0..(Len(vec) - 1) : EvalPrimes(primes, i) <=> (vec[i + 1] = 1)

\* Dnf(2, [0,1,1,1]) is through and true at exactly the indices 1, 2, 3.
C1_Witness ==
    /\ pc = "done"
    /\ vnumber = 2
    /\ vec = <<0, 1, 1, 1>>
    /\ {i \in 0..3 : EvalPrimes(primes, i)} = {1, 2, 3}

AllZero == \A k \in DOMAIN vec : vec[k] = 0

\* C8: an all-zero truth vector yields no primes; to_bitwise returns the
\* TRUE node negated, whose value is false at every assignment and which
\* differs from the TRUE node of an implicant of Nones only; get returns "0".
C8_AllZeroIsConstantFalse ==
    (pc # "idle" /\ AllZero) =>
        /\ pc = "done" => primes = <<>>
        /\ bitwise # NoBitwise =>
              /\ bitwise.type = "TRUE"
              /\ bitwise.negated
              /\ bitwise.children = <<>>
              /\ \A i \in 0..(Len(vec) - 1) : ~EvalBitwise(bitwise, i)
              /\ bitwise # impl_to_bitwise(
                    ImplicantOf([k \in 1..vnumber |-> None]))
        /\ dnfStr # NoStr => dnfStr = <<"0">>

\* An all-zero vector of three variables, to_bitwise and get both called.
C8_Witness ==
    /\ pc = "done"
    /\ vnumber = 3
    /\ AllZero
    /\ primes = <<>>
    /\ bitwise # NoBitwise
    /\ dnfStr = <<"0">>

\* C10 as stated: the number of passes of the merge step, the pass without
\* a merge included, is at most v.
C10_RoundsAtMostV == rounds <= vnumber

\* C10 as amended: the merge phase ends after at most v + 1 passes of the
\* merge step, the pass without a merge included: while the loop is still
\* running at most v passes are through, so at most v passes produce a merge.
C10_RoundsAtMostVPlusOne ==
    /\ rounds <= vnumber + 1
    /\ pc = "merge" => rounds <= vnumber

\* The all-ones vector of two variables needed three passes.
C10_Witness ==
    /\ pc = "prune"
    /\ vnumber = 2
    /\ rounds = 3

\* The indices where the truth vector is 1.
Ones == {i \in 0..(Len(vec) - 1) : vec[i + 1] = 1}

\* The indices covered by the first n of the primes.
CoveredBy(ps, n) == UNION {Range(ps[m].minterms) : m \in 1..n}

\* The list without its entry at list index i.
Without(ps, i) ==
    [n \in 1..(Len(ps) - 1) |-> IF n <= i THEN ps[n] ELSE ps[n + 1]]

\* One step of the pruning pass as C11 states it: the pass starts with all
\* true indices outstanding; the prime scanned is kept, and its minterms
\* leave the outstanding set, iff its minterms meet the outstanding set;
\* otherwise it is deleted and nothing else changes; the list changes in no
\* other way once pruning has begun.
PruneStep ==
    /\ pc = "prune" => (requ' = Ones /\ dropIdx' = 0 /\ primes' = primes)
    /\ (pc = "drop" /\ dropIdx < Len(primes)) =>
          LET mtSet == Range(primes[dropIdx + 1].minterms) IN
          IF mtSet \cap requ # {}
          THEN /\ primes' = primes
               /\ requ' = requ \ mtSet
               /\ dropIdx' = dropIdx + 1
          ELSE /\ primes' = Without(primes, dropIdx)
               /\ requ' = requ
               /\ dropIdx' = dropIdx
    /\ (pc = "drop" /\ dropIdx >= Len(primes)) =>
          (primes' = primes /\ requ' = requ)
    /\ pc = "done" => (primes' = primes /\ requ' = requ)

\* The survivors so far, while and after the pass: the outstanding set is
\* the true indices that no scanned survivor covers, every scanned survivor
\* covers a true index that no earlier survivor covers, and once the pass
\* has ended every prime is a scanned survivor and nothing is outstanding.
PruneInv ==
    pc \in {"drop", "done"} =>
        /\ dropIdx <= Len(primes)
        /\ requ = Ones \ CoveredBy(primes, dropIdx)
        /\ \A n \in 1..dropIdx :
              \E i \in Range(primes[n].minterms) :
                  i \in Ones /\ i \notin CoveredBy(primes, n - 1)
        /\ pc = "done" => (dropIdx = Len(primes) /\ requ = {})

\* C11: pruning is one greedy left-to-right pass over the accumulated primes
\* that starts with all true indices outstanding; a prime is kept iff its
\* minterms meet the outstanding set when it is scanned, and they are then
\* removed from the set, otherwise it is deleted.  So the survivors are an
\* order-preserving subsequence of the accumulated primes, each covers a
\* true index that no earlier survivor covers, and the outstanding set is
\* empty when the pass ends.
C11_GreedyPrune == []PruneInv /\ [][PruneStep]_vars

\* Dnf(3, [0,0,0,1,1,0,1,1]) accumulates the primes [0,None,1], [1,1,None]
\* and [None,1,1] in this order; the pass has kept the first two and
\* deleted the third, whose minterms 6 and 7 were no longer outstanding.
C11_Witness ==
    /\ pc = "done"
    /\ vnumber = 3
    /\ vec = <<0, 0, 0, 1, 1, 0, 1, 1>>
    /\ [n \in DOMAIN primes |-> primes[n].vec]
          = <<(<<0, None, 1>>), (<<1, 1, None>>)>>
    /\ primes[1].minterms = <<4, 6>>
    /\ primes[2].minterms = <<3, 7>>
    /\ requ = {}

\* The number of don't-care slots of an implicant.
NoneCount(impl) == Cardinality({k \in DOMAIN impl.vec : impl.vec[k] = None})

\* The implicants held in the buckets, and those held anywhere.
Bucketed == UNION {Range(groups[g]) : g \in DOMAIN groups}
Held == Bucketed \cup Range(primes)

\* An implicant as C13 states it: a vector of length v; minterms that are
\* not empty, not repeated and exactly the indices below 2^v that agree with
\* every assigned slot, 2^d of them for d don't-care slots; the truth vector
\* is 1 at each of them.
WellFormed(impl) ==
    /\ Len(impl.vec) = vnumber
    /\ impl.minterms # <<>>
    /\ Cardinality(Range(impl.minterms)) = Len(impl.minterms)
    /\ Range(impl.minterms)
          = {i \in 0..(Pow2(vnumber) - 1) : EvalImplicant(impl, i)}
    /\ Len(impl.minterms) = Pow2(NoneCount(impl))
    /\ \A i \in Range(impl.minterms) : vec[i + 1] = 1

\* C13: at every point of a Dnf run every implicant held in a bucket or in
\* the primes list has a vector of length v and a minterm list that is not
\* empty, has no repeated entry and is exactly the set of indices that agree
\* with its assigned slots, all of them true indices; the bucketed
\* implicants of one round have the same number of don't-care slots, and
\* each sits in the bucket numbered by its count of one slots.
C13_ImplicantsWellFormed ==
    pc # "idle" =>
        /\ \A impl \in Held : WellFormed(impl)
        /\ Cardinality({NoneCount(impl) : impl \in Bucketed}) <= 1
        /\ \A g \in DOMAIN groups :
              \A n \in DOMAIN groups[g] : count_ones(groups[g][n]) = g - 1

\* Dnf(3, [1,1,1,1,1,1,1,1]) after two merge rounds: bucket 1 holds the
\* implicant [1,None,None] with the minterms 1, 3, 5, 7, and the merge
\* loop is still running.
C13_Witness ==
    /\ pc = "merge"
    /\ vnumber = 3
    /\ rounds = 2
    /\ \E n \in DOMAIN groups[2] :
          /\ groups[2][n].vec = <<1, None, None>>
          /\ Range(groups[2][n].minterms) = {1, 3, 5, 7}
          /\ Len(groups[2][n].minterms) = 4

-----------------------------------------------------------------------------
\* Properties of a single try_merge call (checked under SpecImpl).

\* The positions where the two vectors differ.
DiffSlots(a, b) == {k \in DOMAIN a.vec : a.vec[k] # b.vec[k]}

\* C2 as stated: try_merge returns a merged implicant if and only if the
\* vectors differ in exactly one slot and that slot is 1 or 0 in both.
C2_MergeIffOneAssignedDiff ==
    implPc = "returned" =>
        ((mergeRes # NoImplicant) <=>
            \E k \in DOMAIN implA.vec :
                /\ DiffSlots(implA, implB) = {k}
                /\ implA.vec[k] # None
                /\ implB.vec[k] # None)

\* C2 as amended: try_merge returns a merged implicant if and only if the
\* vectors differ in at most one slot, whatever the entries of that slot;
\* it returns no merge if and only if two or more slots differ.
C2_MergeIffAtMostOneDiff ==
    implPc = "returned" =>
        ((mergeRes # NoImplicant) <=>
            Cardinality(DiffSlots(implA, implB)) <= 1)

\* A merge of two vectors whose only difference has None on one side.
C2_Witness ==
    /\ implPc = "returned"
    /\ implA.vec = <<1, None>>
    /\ implB.vec = <<1, 0>>
    /\ mergeRes # NoImplicant
    /\ mergeRes.vec = <<1, None>>

-----------------------------------------------------------------------------
\* Properties of a call of parse (checked under SpecParse).

\* parse has returned the tree of parse_expression as it was parsed.
TreeReturned == parsePc = "returned" /\ ~refine /\ ~marklinear

\* parse has ended, by a return or by sys.exit.
ParseEnded == parsePc \in {"returned", "exited"}

\* The tree of a text parsed on its own with the arguments of the call.
ParseOf(text) ==
    parse_expression(Parser(text, Pow2(bitCount), reduceConstants)).node

OperandNode(k) == ParseOf(operands[k])

\* A tree without the modulus and the flag of its nodes.
RECURSIVE Shape(_)
Shape(n) ==
    IF n = NoNode THEN NoNode
    ELSE [type |-> n.type, constant |-> n.constant, vname |-> n.vname,
          children |-> [k \in DOMAIN n.children |-> Shape(n.children[k])]]

OperandShape(k) == Shape(OperandNode(k))

\* The nodes of a tree.
RECURSIVE AllNodes(_)
AllNodes(n) ==
    {n} \cup UNION {AllNodes(n.children[k]) : k \in DOMAIN n.children}

SNode(t, ch) == [type |-> t, constant |-> 0, vname |-> <<>>, children |-> ch]
SConstant(c) == [SNode("CONSTANT", <<>>) EXCEPT !.constant = c]
SVariable(name) == [SNode("VARIABLE", <<>>) EXCEPT !.vname = name]

\* The negative of an operand as C4 states it.
NegShape(X) ==
    IF X.type = "CONSTANT" THEN SConstant(-X.constant)
    ELSE IF X.type = "PRODUCT" /\ X.children[1].type = "CONSTANT"
    THEN [X EXCEPT !.children[1] = SConstant(-X.children[1].constant)]
    ELSE IF X.type = "PRODUCT"
    THEN [X EXCEPT !.children = <<SConstant(-1)>> \o X.children]
    ELSE SNode("PRODUCT", <<SConstant(-1), X>>)

UnaryShape(u, X) ==
    IF u = "-" THEN NegShape(X) ELSE SNode("NEGATION", <<X>>)

\* The precedence level of a binary operator, lowest first; the unary
\* operators are at level 7.
Level(op) ==
    CASE op = "|" -> 1
      [] op = "^" -> 2
      [] op = "&" -> 3
      [] op = "<<" -> 4
      [] op \in {"+", "-"} -> 5
      [] op = "*" -> 6
      [] op = "**" -> 8

\* The node type of the chains of a level.
TypeOfLevel(l) ==
    CASE l = 1 -> "INCL_DISJUNCTION"
      [] l = 2 -> "EXCL_DISJUNCTION"
      [] l = 3 -> "CONJUNCTION"
      [] l = 5 -> "SUM"
      [] l = 6 -> "PRODUCT"

\* The tree of one binary operator over two operand trees.
BinShape(op, L, R) ==
    CASE op = "<<" ->
            SNode("PRODUCT", <<L, SNode("POWER", <<SConstant(2), R>>)>>)
      [] op = "**" -> SNode("POWER", <<L, R>>)
      [] op = "-" -> SNode("SUM", <<L, NegShape(R)>>)
      [] OTHER -> SNode(TypeOfLevel(Level(op)), <<L, R>>)

Prefixed(k) == Head(operands[k]) \in UnaryOps
Unprefixed == \A k \in DOMAIN operands : ~Prefixed(k)
OperandsParse == \A k \in DOMAIN operands : OperandNode(k) # NoNode

\* C3: an operator of higher precedence ends up below an adjacent operator
\* of lower precedence.  Operands without unary operator that parse on
\* their own: two of them joined by one operator give the tree of that
\* operator; three joined by operators of different levels give the tree of
\* the lower operator over the tree of the higher one.  A unary operator
\* is above "**" and below "*".  "a+b*c" is SUM(a, PRODUCT(b, c)) and
\* "a<<2" is PRODUCT(a, POWER(2, 2)).
C3_Precedence ==
    TreeReturned =>
        /\ (Len(operands) = 2 /\ Unprefixed /\ OperandsParse) =>
              Shape(root) = BinShape(ops[1], OperandShape(1), OperandShape(2))
        /\ (Len(operands) = 3 /\ Unprefixed /\ OperandsParse
                /\ Level(ops[1]) < Level(ops[2])) =>
              Shape(root) = BinShape(ops[1], OperandShape(1),
                                BinShape(ops[2], OperandShape(2),
                                         OperandShape(3)))
        /\ (Len(operands) = 3 /\ Unprefixed /\ OperandsParse
                /\ Level(ops[1]) > Level(ops[2])) =>
              Shape(root) = BinShape(ops[2],
                                BinShape(ops[1], OperandShape(1),
                                         OperandShape(2)),
                                OperandShape(3))
        /\ (Len(operands) = 2 /\ Prefixed(1) /\ ~Prefixed(2)
                /\ nprefixes = 1 /\ OperandsParse) =>
              LET u == Head(operands[1])
                  X == Shape(ParseOf(Tail(operands[1])))
              IN Shape(root) =
                    IF ops[1] = "**"
                    THEN UnaryShape(u, BinShape("**", X, OperandShape(2)))
                    ELSE BinShape(ops[1], UnaryShape(u, X), OperandShape(2))
        /\ expr = <<"a", "+", "b", "*", "c">> =>
              Shape(root) = SNode("SUM", <<SVariable(<<"a">>),
                                SNode("PRODUCT", <<SVariable(<<"b">>),
                                                   SVariable(<<"c">>)>>)>>)
        /\ expr = <<"a", "<", "<", "2">> =>
              Shape(root) = SNode("PRODUCT", <<SVariable(<<"a">>),
                                SNode("POWER", <<SConstant(2),
                                                 SConstant(2)>>)>>)

\* "a+b*c" was parsed to a sum whose second child is the product.
C3_Witness ==
    /\ TreeReturned
    /\ expr = <<"a", "+", "b", "*", "c">>
    /\ root.type = "SUM"
    /\ root.children[2].type = "PRODUCT"

\* C4: the negative of an operand X, by unary minus or as the right operand
\* of binary "-", is X negated in place for a CONSTANT, X with its first
\* child negated for a PRODUCT that starts with a CONSTANT, X with
\* CONSTANT -1 put first for another PRODUCT, and PRODUCT(-1, X) else;
\* "a - X" has it as the child of the SUM.
C4_Negation ==
    TreeReturned =>
        /\ (Len(operands) = 1 /\ Head(operands[1]) = "-"
                /\ ParseOf(Tail(operands[1])) # NoNode) =>
              Shape(root) = NegShape(Shape(ParseOf(Tail(operands[1]))))
        /\ (Len(operands) >= 2 /\ ops[1] = "-"
                /\ (\A i \in 2..Len(ops) : ops[i] \in {"*", "**"})
                /\ OperandNode(1) # NoNode
                /\ ParseOf(Render(Tail(operands), Tail(ops), spaces))
                      # NoNode) =>
              Shape(root) =
                 SNode("SUM",
                    <<OperandShape(1),
                      NegShape(Shape(ParseOf(
                         Render(Tail(operands), Tail(ops), spaces))))>>)
        /\ expr = <<"-", "5">> => Shape(root) = SConstant(-5)
        /\ expr = <<"-", "(", "a", "*", "b", ")">> =>
              Shape(root) = SNode("PRODUCT", <<SConstant(-1),
                                SVariable(<<"a">>), SVariable(<<"b">>)>>)

\* "-(a*b)" was parsed to a product of three children.
C4_Witness ==
    /\ TreeReturned
    /\ expr = <<"-", "(", "a", "*", "b", ")">>
    /\ root.type = "PRODUCT"
    /\ Len(root.children) = 3

\* C5: a second "<<" directly after the right operand of a "<<", and a
\* second "**" directly after the right operand of a "**", make parse
\* return no tree, with or without spaces; one of the two in parentheses
\* parses.
C5_NestedShiftAndPower ==
    ParseEnded =>
        /\ (\E i \in 1..(Len(ops) - 1) :
                ops[i] = ops[i + 1] /\ ops[i] \in {"<<", "**"}) =>
              (parsePc = "returned" /\ root = NoNode)
        /\ (Len(operands) = 2 /\ OperandsParse
                /\ (ops[1] = "<<" \/ (ops[1] = "**" /\ Unprefixed))) =>
              root # NoNode

\* "a << b << c" was handed to parse, which returned no tree.
C5_Witness ==
    /\ parsePc = "returned"
    /\ expr = <<"a", " ", "<", "<", " ", "b", " ", "<", "<", " ", "c">>
    /\ root = NoNode

LiteralValue(atom) ==
    CASE atom = <<"5">> -> 5
      [] atom = <<"2">> -> 2
      [] atom = <<"0", "x", "1", "f">> -> 31
      [] atom = <<"0", "b", "1", "0", "1">> -> 5
      [] atom = <<"1", "2">> -> 12

Literals ==
    {<<"5">>, <<"2">>, <<"0", "x", "1", "f">>, <<"0", "b", "1", "0", "1">>,
     <<"1", "2">>}

\* C7: every node of a tree parse returns carries the modulus 2^bitCount and
\* the flag reduceConstants, and a literal is stored with its raw value.
C7_NodesCarryModulusAndFlag ==
    (ParseEnded /\ root # NoNode) =>
        /\ \A n \in AllNodes(root) :
              /\ n.modulus = Pow2(bitCount)
              /\ n.modRed = reduceConstants
        /\ (Len(operands) = 1 /\ operands[1] \in Literals) =>
              (root.type = "CONSTANT"
                 /\ root.constant = LiteralValue(operands[1]))

NAryTypes ==
    {"SUM", "PRODUCT", "CONJUNCTION", "EXCL_DISJUNCTION", "INCL_DISJUNCTION"}

\* All operators of the chain are of one level, which has n-ary nodes.
OneLevel ==
    /\ Len(ops) >= 1
    /\ \A i \in DOMAIN ops : Level(ops[i]) = Level(ops[1])
    /\ Level(ops[1]) \in {1, 2, 3, 5, 6}

\* C9: in a tree parse returns the n-ary nodes have at least 2 children and
\* CONSTANT and VARIABLE nodes none; a chain of k >= 2 operands joined by
\* operators of one level is one node with the k operands as children in
\* source order (negated behind "-"); a single operand is returned as it
\* is, a parenthesized one as the tree of what is in the parentheses.
C9_NAryNodes ==
    (TreeReturned /\ root # NoNode) =>
        /\ \A n \in AllNodes(root) :
              /\ n.type \in NAryTypes => Len(n.children) >= 2
              /\ n.type \in {"CONSTANT", "VARIABLE"} => n.children = <<>>
        /\ (OneLevel /\ OperandsParse) =>
              Shape(root) =
                 SNode(TypeOfLevel(Level(ops[1])),
                       [k \in DOMAIN operands |->
                          IF k > 1 /\ ops[k - 1] = "-"
                          THEN NegShape(OperandShape(k))
                          ELSE OperandShape(k)])
        /\ (Len(operands) = 1 /\ ngroups = 0 /\ nprefixes = 0) =>
              Shape(root) = IF operands[1] \in Literals
                            THEN SConstant(LiteralValue(operands[1]))
                            ELSE SVariable(operands[1])
        /\ (Len(operands) = 1 /\ Head(operands[1]) = "(") =>
              Shape(root) =
                 Shape(ParseOf(SubSeq(operands[1], 2, Len(operands[1]) - 1)))

\* "a - 2 - c" was parsed to one sum of three children.
C9_Witness ==
    /\ TreeReturned
    /\ expr = <<"a", " ", "-", " ", "2", " ", "-", " ", "c">>
    /\ root.type = "SUM"
    /\ Len(root.children) = 3

-----------------------------------------------------------------------------
\* Properties of a call of parse on a text with spaces (checked under
\* SpecSpaces).

\* If the text without spaces parses, the text with its spaces has parsed
\* as well and gave the same tree, and no variable name of the tree holds a
\* space.
SameTreeAsPlain ==
    ParseOf(PlainText(tokens)) # NoNode =>
    /\ root # NoNode
    /\ root = ParseOf(PlainText(tokens))
    /\ \A n \in AllNodes(root) : " " \notin Range(n.vname)

\* C12: for every expression that parses, the text with any number of spaces
\* before the first token, between two adjacent tokens or after the last
\* token parses as well and gives the same tree, the names of the variables
\* captured without spaces around them.
C12_SpacesDoNotChangeTheTree ==
    (parsePc = "parsed" /\ tokens # <<>>) => SameTreeAsPlain

\* What the parser does with spaces: the same tree whenever at most one
\* space stands before the first token, whatever the other spaces are, and
\* no tree at all when two or more stand there.
SpacesButLeadingSkipped ==
    (parsePc = "parsed" /\ tokens # <<>>) =>
        IF gaps[1] <= 1 THEN SameTreeAsPlain
        ELSE ParseOf(PlainText(tokens)) # NoNode /\ root = NoNode

====
